---------------------------- MODULE Spec2Model ----------------------------
(***************************************************************************)
(* Particle-Life: a model of the particle store (particle.py), the force   *)
(* and integration engine (simulation.py) and the driving loop (main.py,   *)
(* visualization.py).                                                      *)
(*                                                                         *)
(* Numbers.  The program computes in floating point.  Here every real      *)
(* quantity (position, velocity, force, radius, matrix cell, friction,     *)
(* delta_time) is a fixed-point integer counted in units of 1/One, and     *)
(* every product and quotient is truncated toward zero to that lattice.    *)
(* Squared distances and squared radii are kept exactly (in units of       *)
(* 1/One^2), so the regime tests compare exact values.  Rounding of the    *)
(* floating-point formats themselves is outside the model.                 *)
(*                                                                         *)
(* Particle indices run from 0, as in the program; the cells of the grid   *)
(* are indexed from 0 as well.                                             *)
(***************************************************************************)
EXTENDS Integers, Sequences, FiniteSets, TLC

VARIABLES
    sim_params,          \* config['simulation_parameters'] (main.py:37)
    sim_width,           \* visualizer.sim_width  (main.py:55)
    sim_height,          \* visualizer.sim_height (main.py:56)
    max_steps,           \* run_control max_steps (main.py:67)
    pc,                  \* position of main(): "start", "particles", "step", "draw", "check", "done", "failed"
    positions,           \* ParticleSystem.positions : index -> <<x, y>>
    velocities,          \* ParticleSystem.velocities: index -> <<vx, vy>>
    types,               \* ParticleSystem.types     : index -> type
    interaction_matrix,  \* Simulation.interaction_matrix: row -> column -> value
    grid,                \* Simulation.grid: cell index -> sequence of particle indices
    step_num,            \* main.py:70
    running,             \* main.py:69
    error,               \* the exception that ended construction, or "none"
    entropy,             \* what the operating system's entropy pool holds for each of two runs
    twin                 \* a second run of main() on the same configuration, its user idle

cfgvars == <<sim_params, sim_width, sim_height, max_steps, entropy>>
particlevars == <<positions, velocities, types>>
vars == <<sim_params, sim_width, sim_height, max_steps, pc, positions,
          velocities, types, interaction_matrix, grid, step_num, running, error,
          entropy, twin>>

---------------------------------------------------------------------------
(* Fixed-point arithmetic *)

\* 1.0 in lattice units: scroll_sensitivity 0.05 is one unit.
One == 20

Abs(a) == IF a < 0 THEN -a ELSE a

Sign(a) == IF a < 0 THEN -1 ELSE IF a > 0 THEN 1 ELSE 0

\* a / b truncated toward zero (b # 0).
TDiv(a, b) == Sign(a) * Sign(b) * (Abs(a) \div Abs(b))

\* np.clip(x, lo, hi)
Clip(x, lo, hi) == IF x < lo THEN lo ELSE IF x > hi THEN hi ELSE x

\* a * b of two fixed-point values.
FMul(a, b) == TDiv(a * b, One)

\* a / b of two fixed-point values.
FDiv(a, b) == TDiv(a * One, b)

\* int(a / b) for a >= 0, b > 0: the cell coordinate of a position.
IntDiv(a, b) == a \div b

\* int(np.ceil(a / b)) for a >= 0, b > 0.
CeilDiv(a, b) == (a + b - 1) \div b

RECURSIVE SqrtSearch(_, _, _)
SqrtSearch(n, lo, hi) ==
    IF lo >= hi THEN lo
    ELSE LET mid == (lo + hi + 1) \div 2
         IN  IF mid * mid <= n THEN SqrtSearch(n, mid, hi)
                               ELSE SqrtSearch(n, lo, mid - 1)

\* np.sqrt of an exact square n (units 1/One^2): the result in units 1/One.
Sqrt(n) == SqrtSearch(n, 0, n)

\* Python's and NumPy's float %: the result has the sign of the divisor.
PyMod(a, b) == a - b * (a \div b)

---------------------------------------------------------------------------
(* Vectors *)

VAdd(u, v) == <<u[1] + v[1], u[2] + v[2]>>
VSub(u, v) == <<u[1] - v[1], u[2] - v[2]>>
VNeg(u) == <<-u[1], -u[2]>>
VScale(u, k) == <<FMul(u[1], k), FMul(u[2], k)>>
NormSq(u) == u[1] * u[1] + u[2] * u[2]
Zero2 == <<0, 0>>

---------------------------------------------------------------------------
(* The seeded generator of the particle store (particle.py:51).            *)
(* np.random.default_rng(seed) is a deterministic function of the seed; it *)
(* is modelled by the digits of the seed in base RngBase: the k-th draw is *)
(* the k-th digit d, standing for the fraction d / RngBase of [0, 1).      *)

RngBase == 8

\* A generator that ignores the seed it is given and seeds itself from the
\* operating system.
DefaultRngUnseeded(seed, os_entropy) == os_entropy

\* particle.py:51: np.random.default_rng(self.seed); the stream is a
\* function of the seed, the operating system's entropy is not consulted.
DefaultRng(seed, os_entropy) == seed

RECURSIVE Pow(_, _)
Pow(b, k) == IF k = 0 THEN 1 ELSE b * Pow(b, k - 1)

\* The k-th draw (k = 0, 1, ...) of the generator seeded with seed.
RandomDraw(seed, k) == (seed \div Pow(RngBase, k)) % RngBase

\* rng.uniform(low=0, high=high): low + (high - low) * random_sample().
Uniform(seed, k, high) == TDiv(high * RandomDraw(seed, k), RngBase)

\* rng.integers with the upper end included (endpoint=True).
Integers0Inclusive(seed, k, high) == TDiv((high + 1) * RandomDraw(seed, k), RngBase)

\* rng.integers(low=0, high=high): draws 2*count .. 3*count-1 of the stream.
Integers0(seed, k, high) == TDiv(high * RandomDraw(seed, k), RngBase)

Indices(count) == 0 .. (count - 1)

\* The draw with its bounds in the wrong order (high=[height, width]).
InitialPositionsSwapped(seed, count, width, height) ==
    [i \in Indices(count) |->
        <<Uniform(seed, 2 * i, height), Uniform(seed, 2 * i + 1, width)>>]

\* particle.py:54-58: positions, drawn row by row (x_i then y_i).
InitialPositions(seed, count, width, height) ==
    [i \in Indices(count) |->
        <<Uniform(seed, 2 * i, width), Uniform(seed, 2 * i + 1, height)>>]

\* particle.py:59
InitialVelocities(count) == [i \in Indices(count) |-> Zero2]

\* particle.py:60-65: types, drawn after the positions.
InitialTypes(seed, count, particle_types) ==
    [i \in Indices(count) |-> Integers0(seed, 2 * count + i, particle_types)]

\* What ParticleSystem.__init__ raises: NumPy refuses a negative size, and
\* refuses low >= high when it has at least one integer to draw (an empty
\* draw returns the empty array before the range is looked at).
ParticleSystemError(count, particle_types) ==
    IF count < 0 THEN "ValueError"
    ELSE IF count > 0 /\ particle_types <= 0 THEN "ValueError"
    ELSE "none"

---------------------------------------------------------------------------
(* Simulation.__init__ (simulation.py:190-243) *)

\* The world of the engine.  simulation.py:13 imports WINDOW_WIDTH and
\* WINDOW_HEIGHT from constants.py, which does not define them; main.py:60
\* hands the engine the dimensions it handed the particle store.
WINDOW_WIDTH == sim_width
WINDOW_HEIGHT == sim_height

particle_count == sim_params.particle_count
particle_types == sim_params.particle_types
radius_min == sim_params.interaction_radius_min
radius_max == sim_params.interaction_radius_max
repulsion_strength == sim_params.repulsion_strength
friction == sim_params.friction
max_velocity == sim_params.max_velocity
velocity_damping_threshold == sim_params.velocity_damping_threshold
delta_time == sim_params.delta_time

\* simulation.py:210-211 (exact, in units of 1/One^2)
radius_min_sq == radius_min * radius_min
radius_max_sq == radius_max * radius_max

\* simulation.py:214-215
world_width == WINDOW_WIDTH
world_height == WINDOW_HEIGHT

\* simulation.py:230-232
grid_cell_size == radius_max
grid_width == CeilDiv(WINDOW_WIDTH, grid_cell_size)
grid_height == CeilDiv(WINDOW_HEIGHT, grid_cell_size)

Cells == 0 .. (grid_width * grid_height - 1)

\* The shape of a matrix given as a sequence of rows (np.array(...).shape).
Shape(m) == <<Len(m), IF Len(m) = 0 THEN 0 ELSE Len(m[1])>>

\* np.array(params['interaction_matrix']): rows and columns counted from 0.
AsArray(m) ==
    [r \in 0 .. (Shape(m)[1] - 1) |-> [c \in 0 .. (Shape(m)[2] - 1) |-> m[r + 1][c + 1]]]

\* A validation that counts the rows only.
SimulationErrorRowsOnly(num_types, matrix) ==
    IF Shape(matrix)[1] # num_types THEN "ValueError" ELSE "none"

\* simulation.py:217-227: the one validation of the constructor.
SimulationError(num_types, matrix) ==
    IF Shape(matrix) # <<num_types, num_types>> THEN "ValueError" ELSE "none"

EmptyGrid == [c \in Cells |-> <<>>]

---------------------------------------------------------------------------
(* _update_grid_numba (simulation.py:43-91) *)

\* simulation.py:60-61
CellX(p) == IntDiv(p[1], grid_cell_size)
CellY(p) == IntDiv(p[2], grid_cell_size)

\* simulation.py:68-71
near_left(p) == p[1] < grid_cell_size
near_right(p) == p[1] > world_width - grid_cell_size
near_top(p) == p[2] < grid_cell_size
near_bottom(p) == p[2] > world_height - grid_cell_size

\* The column / row a ghost is written to (simulation.py:75-91).
GhostLeftColumn(p) == CellX(p) - grid_width + 1      \* used when near_right
GhostRightColumn(p) == CellX(p) + grid_width - 1     \* used when near_left
GhostTopRow(p) == CellY(p) - grid_height + 1         \* used when near_bottom
GhostBottomRow(p) == CellY(p) + grid_height - 1      \* used when near_top

Opt(cond, idx) == IF cond THEN <<idx>> ELSE <<>>

\* The list indices particle at p is appended to, in program order: the
\* primary cell (line 62), then the ghosts (lines 74-91).
Insertions(p) ==
    <<CellX(p) + CellY(p) * grid_width>>
    \o Opt(near_right(p), GhostLeftColumn(p) + CellY(p) * grid_width)
    \o Opt(near_left(p), GhostRightColumn(p) + CellY(p) * grid_width)
    \o Opt(near_bottom(p), CellX(p) + GhostTopRow(p) * grid_width)
    \o Opt(near_top(p), CellX(p) + GhostBottomRow(p) * grid_width)
    \o Opt(near_right(p) /\ near_bottom(p), GhostLeftColumn(p) + GhostTopRow(p) * grid_width)
    \o Opt(near_left(p) /\ near_bottom(p), GhostRightColumn(p) + GhostTopRow(p) * grid_width)
    \o Opt(near_right(p) /\ near_top(p), GhostLeftColumn(p) + GhostBottomRow(p) * grid_width)
    \o Opt(near_left(p) /\ near_top(p), GhostRightColumn(p) + GhostBottomRow(p) * grid_width)

\* grid[idx] of a Numba typed list of length len: a negative index counts
\* from the end, as in Python.
ListIndex(idx, len) == IF idx < 0 THEN idx + len ELSE idx

RECURSIVE AppendAt(_, _, _, _)
AppendAt(g, i, idxs, k) ==
    IF k > Len(idxs) THEN g
    ELSE LET c == ListIndex(idxs[k], grid_width * grid_height)
         IN  AppendAt([g EXCEPT ![c] = Append(@, i)], i, idxs, k + 1)

RECURSIVE FillGrid(_, _, _)
FillGrid(g, pos, i) ==
    IF i >= particle_count THEN g
    ELSE FillGrid(AppendAt(g, i, Insertions(pos[i]), 1), pos, i + 1)

\* The grid after _update_grid_numba(positions, ...): cleared, then filled.
UpdateGrid(pos) == FillGrid(EmptyGrid, pos, 0)

---------------------------------------------------------------------------
(* _calculate_forces_numba (simulation.py:93-171) *)

\* 1e-9 (simulation.py:142) is below the lattice unit.
Epsilon == 0

\* The correction with its elif branches left out: a separation below
\* minus half the world is not brought back.
ToroidalCorrectionOneSided(d, world) ==
    IF 2 * d > world THEN d - world ELSE d

\* simulation.py:132-135: one component of the toroidal correction
\* (half_width = world_width / 2 is compared exactly).
ToroidalCorrection(d, world) ==
    IF 2 * d > world THEN d - world
    ELSE IF 2 * d < -world THEN d + world
    ELSE d

\* simulation.py:129-135
DeltaPos(pos_i, pos_j) ==
    <<ToroidalCorrection(pos_j[1] - pos_i[1], world_width),
      ToroidalCorrection(pos_j[2] - pos_i[2], world_height)>>

\* The range test with the cutoff at radius_max forgotten.
InRangeNoCutoff(distance_sq) == 0 < distance_sq

\* simulation.py:139: the pair interacts at all.
InRange(distance_sq) == 0 < distance_sq /\ distance_sq < radius_max_sq

\* The repulsion with its sign lost: it pulls i toward j.
RepulsionForceInward(direction, distance) ==
    VScale(VScale(direction, repulsion_strength), One - FDiv(distance, radius_min))

\* simulation.py:147
RepulsionForce(direction, distance) ==
    VScale(VScale(VNeg(direction), repulsion_strength), One - FDiv(distance, radius_min))

\* The profile with its falling half forgotten: it keeps rising past the
\* ideal distance.
ForceMagnitudeRising(strength, distance) ==
    FDiv(FMul(strength, distance - radius_min), TDiv(radius_min + radius_max, 2) - radius_min)

\* simulation.py:158-165
ForceMagnitude(strength, distance) ==
    LET ideal_dist == TDiv(radius_min + radius_max, 2)
    IN  IF distance < ideal_dist
        THEN FDiv(FMul(strength, distance - radius_min), ideal_dist - radius_min)
        ELSE FMul(strength, One - FDiv(distance - ideal_dist, radius_max - ideal_dist))

\* simulation.py:154-167
InteractionForce(direction, distance, strength) ==
    VScale(direction, ForceMagnitude(strength, distance))

\* simulation.py:128-168: what neighbour j adds to the net force of i.
PairForce(pos_i, pos_j, type_i, type_j, matrix) ==
    LET delta_pos == DeltaPos(pos_i, pos_j)
        distance_sq == NormSq(delta_pos)
    IN  IF InRange(distance_sq)
        THEN LET distance == Sqrt(distance_sq)
                 direction == <<FDiv(delta_pos[1], distance + Epsilon),
                                FDiv(delta_pos[2], distance + Epsilon)>>
             IN  IF distance_sq < radius_min_sq
                 THEN RepulsionForce(direction, distance)
                 ELSE InteractionForce(direction, distance, matrix[type_i][type_j])
        ELSE Zero2

Offsets == <<-1, 0, 1>>

\* simulation.py:118-124: the entries of the 3x3 block around the cell of
\* p, in scan order (dx outer, dy inner), cells outside the grid skipped.
RECURSIVE ScanBlock(_, _, _)
ScanBlock(g, p, k) ==
    IF k > 9 THEN <<>>
    ELSE LET nx == CellX(p) + Offsets[((k - 1) \div 3) + 1]
             ny == CellY(p) + Offsets[((k - 1) % 3) + 1]
             here == IF 0 <= nx /\ nx < grid_width /\ 0 <= ny /\ ny < grid_height
                     THEN g[nx + ny * grid_width] ELSE <<>>
         IN  here \o ScanBlock(g, p, k + 1)

\* simulation.py:125: the entries other than i itself.
RECURSIVE DropSelf(_, _)
DropSelf(entries, i) ==
    IF entries = <<>> THEN <<>>
    ELSE IF Head(entries) = i THEN DropSelf(Tail(entries), i)
    ELSE <<Head(entries)>> \o DropSelf(Tail(entries), i)

\* The neighbour entries the force loop of particle i visits.
Visited(g, pos, i) == DropSelf(ScanBlock(g, pos[i], 1), i)

RECURSIVE SumForces(_, _, _, _, _)
SumForces(entries, pos, typ, matrix, i) ==
    IF entries = <<>> THEN Zero2
    ELSE VAdd(PairForce(pos[i], pos[Head(entries)], typ[i], typ[Head(entries)], matrix),
              SumForces(Tail(entries), pos, typ, matrix, i))

\* The entries of a neighbour list that name particle i.
RECURSIVE OnlySelf(_, _)
OnlySelf(entries, i) ==
    IF entries = <<>> THEN <<>>
    ELSE IF Head(entries) = i THEN <<i>> \o OnlySelf(Tail(entries), i)
    ELSE OnlySelf(Tail(entries), i)

\* What the loops of the other particles, from k on, computed against i.
RECURSIVE Reactions(_, _, _, _, _, _)
Reactions(g, pos, typ, matrix, i, k) ==
    IF k >= particle_count THEN Zero2
    ELSE VAdd(IF k = i THEN Zero2
              ELSE SumForces(OnlySelf(Visited(g, pos, k), i), pos, typ, matrix, k),
              Reactions(g, pos, typ, matrix, i, k + 1))

\* The force loop applying Newton's third law: the force computed for
\* (self, neighbour) is also subtracted from the neighbour.
TotalForceMirrored(g, pos, typ, matrix) ==
    [i \in Indices(particle_count) |->
        VSub(SumForces(Visited(g, pos, i), pos, typ, matrix, i),
             Reactions(g, pos, typ, matrix, i, 0))]

\* total_force of _calculate_forces_numba.
TotalForce(g, pos, typ, matrix) ==
    [i \in Indices(particle_count) |-> SumForces(Visited(g, pos, i), pos, typ, matrix, i)]

---------------------------------------------------------------------------
(* Simulation.step (simulation.py:245-298) *)

\* np.linalg.norm of one velocity.
Speed(v) == Sqrt(NormSq(v))

\* simulation.py:266
ApplyForce(v, force) == VAdd(v, VScale(force, delta_time))

\* simulation.py:269
ApplyFriction(v) == VScale(v, One - friction)

\* simulation.py:275
OverSpeed(v) == Speed(v) > max_velocity

\* A cap that clips each component to max_velocity instead of the speed.
CapVelocityPerAxis(v) ==
    <<Clip(v[1], -max_velocity, max_velocity), Clip(v[2], -max_velocity, max_velocity)>>

\* simulation.py:277-279
CapVelocity(v) ==
    IF OverSpeed(v)
    THEN VScale(<<FDiv(v[1], Speed(v)), FDiv(v[2], Speed(v))>>, max_velocity)
    ELSE v

\* The stiction check on the speed taken before the cap (line 286 left out).
ApplyStictionStaleSpeed(v, capped) ==
    IF velocity_damping_threshold > 0
    THEN IF Speed(v) < velocity_damping_threshold THEN Zero2 ELSE capped
    ELSE capped

\* simulation.py:284-288: v is the velocity before the cap, capped after it.
ApplyStiction(v, capped) ==
    IF velocity_damping_threshold > 0
    THEN LET speed == IF OverSpeed(v) THEN max_velocity ELSE Speed(v)
         IN  IF speed < velocity_damping_threshold THEN Zero2 ELSE capped
    ELSE capped

\* simulation.py:266-288 for one particle.
NewVelocity(v, force) ==
    LET w == ApplyFriction(ApplyForce(v, force))
    IN  ApplyStiction(w, CapVelocity(w))

\* The position update with delta_time forgotten.
AdvanceUnscaled(p, v) == VAdd(p, v)

\* simulation.py:291
Advance(p, v) == VAdd(p, VScale(v, delta_time))

\* The wrap done with C's fmod, whose result has the sign of the dividend.
WrapFmod(p) ==
    <<p[1] - WINDOW_WIDTH * TDiv(p[1], WINDOW_WIDTH),
      p[2] - WINDOW_HEIGHT * TDiv(p[2], WINDOW_HEIGHT)>>

\* simulation.py:297-298
Wrap(p) == <<PyMod(p[1], WINDOW_WIDTH), PyMod(p[2], WINDOW_HEIGHT)>>

---------------------------------------------------------------------------
(* Configurations: config.json and the display, as main() reads them *)

\* The most steps a configuration asks for (run_control max_steps).
MaxSteps == 3

\* The most events one call of pygame.event.get() returns.
MaxEvents == 2

\* The seed whose draws are the given digits, first draw first.
RECURSIVE SeedOf(_)
SeedOf(digits) ==
    IF digits = <<>> THEN 0 ELSE Head(digits) + RngBase * SeedOf(Tail(digits))

Matrix1 == <<<<One>>>>
Matrix2 == <<<<10, -20>>, <<20, 0>>>>
Matrix2x3 == <<<<0, 0, 0>>, <<0, 0, 0>>>>

BaseParams ==
    [seed |-> 0, particle_count |-> 2, particle_types |-> 2,
     interaction_matrix |-> Matrix2,
     interaction_radius_min |-> 10, interaction_radius_max |-> 20,
     repulsion_strength |-> 40, friction |-> 1, max_velocity |-> 10,
     velocity_damping_threshold |-> 0, delta_time |-> 20]

\* Two particles: the first in the corner cell, the second on a coarse
\* sub-lattice of the world; both types for the second.
PairSeeds ==
    {SeedOf(<<x0, y0, x1, y1, t0, t1>>) :
        x0 \in {0, 2, 7}, y0 \in {0, 7}, x1 \in {0, 1, 3, 6, 7}, y1 \in {0, 1, 7},
        t0 \in {0}, t1 \in {0, 4}}

\* Three particles: two coincident or close by, a third one apart.
TripleSeeds ==
    {SeedOf(<<0, 0, x1, 0, x2, y2, 0, 4, t2>>) :
        x1 \in {0, 1}, x2 \in {3, 7}, y2 \in {0, 4}, t2 \in {0, 4}}

\* Worlds of 3x3 cells, of 4x3 cells, and one whose sides are no multiple
\* of the cell size.
Worlds == {<<60, 60>>, <<80, 60>>, <<70, 50>>}

\* Parameter sets that differ from BaseParams in one respect.
ParamVariants ==
    {BaseParams,
     [BaseParams EXCEPT !.max_velocity = 100],
     [BaseParams EXCEPT !.velocity_damping_threshold = 5],
     [BaseParams EXCEPT !.velocity_damping_threshold = 30],
     [BaseParams EXCEPT !.delta_time = 10],
     [BaseParams EXCEPT !.interaction_radius_min = 0],
     [BaseParams EXCEPT !.interaction_radius_min = 20],
     [BaseParams EXCEPT !.interaction_radius_min = 30]}

\* What the engine is run on with an idle user.
EngineConfigs ==
    {[params |-> [p EXCEPT !.seed = s], width |-> w[1], height |-> w[2], max_steps |-> MaxSteps] :
        p \in ParamVariants, s \in PairSeeds, w \in Worlds}
    \cup {[params |-> [BaseParams EXCEPT !.seed = s, !.particle_count = 3],
           width |-> w[1], height |-> w[2], max_steps |-> MaxSteps] :
             s \in TripleSeeds, w \in Worlds}

\* Configurations a constructor may refuse.
OddParams ==
    {[BaseParams EXCEPT !.particle_count = n, !.particle_types = t, !.interaction_matrix = m] :
        n \in {-1, 1}, t \in {-1, 0, 2, 3}, m \in {Matrix2, Matrix2x3}}
    \cup {[BaseParams EXCEPT !.particle_count = 0, !.particle_types = t, !.interaction_matrix = m] :
        t \in {2, 3}, m \in {Matrix2, Matrix2x3}}

\* What the whole program is run on, the user editing the matrix.
Configs ==
    {[params |-> [BaseParams EXCEPT !.seed = SeedOf(<<0, 0, 1, 0, 0, 4>>)],
      width |-> 60, height |-> 60, max_steps |-> 2]}
    \cup {[params |-> [BaseParams EXCEPT !.seed = SeedOf(<<0, 0, 2, 1, 7, 7>>)],
           width |-> 60, height |-> 60, max_steps |-> 1]}
    \cup {[params |-> [BaseParams EXCEPT !.seed = s, !.particle_types = 1,
                                         !.interaction_matrix = Matrix1],
           width |-> 60, height |-> 60, max_steps |-> MaxSteps] :
             s \in {SeedOf(<<0, 0, 1, 0>>), SeedOf(<<0, 0, 2, 1>>)}}
    \cup {[params |-> [BaseParams EXCEPT !.seed = SeedOf(<<0, 0, 1, 0>>), !.particle_types = 1,
                                         !.interaction_matrix = Matrix1],
           width |-> 60, height |-> 60, max_steps |-> 0]}
    \cup {[params |-> p, width |-> 60, height |-> 60, max_steps |-> 1] : p \in OddParams}

---------------------------------------------------------------------------
(* main() (main.py:19-111) *)

\* main.py:23-70 for the configuration c: nothing is constructed yet.
Start(c, e) ==
    /\ entropy = e
    /\ twin = [pc |-> "start", positions |-> <<>>, velocities |-> <<>>, types |-> <<>>,
               interaction_matrix |-> <<>>, step_num |-> 0]
    /\ sim_params = c.params
    /\ sim_width = c.width
    /\ sim_height = c.height
    /\ max_steps = c.max_steps
    /\ pc = "start"
    /\ positions = <<>>
    /\ velocities = <<>>
    /\ types = <<>>
    /\ interaction_matrix = <<>>
    /\ grid = <<>>
    /\ step_num = 0
    /\ running = TRUE
    /\ error = "none"

Init == \E c \in Configs : Start(c, <<0, 0>>)

\* main.py:59, particle.py:35-65
ConstructParticles ==
    /\ pc = "start"
    /\ LET err == ParticleSystemError(particle_count, particle_types)
       IN  /\ error' = err
           /\ IF err = "none"
              THEN LET rng == DefaultRng(sim_params.seed, entropy[1])
                   IN  /\ positions' = InitialPositions(rng, particle_count,
                                                        sim_width, sim_height)
                       /\ velocities' = InitialVelocities(particle_count)
                       /\ types' = InitialTypes(rng, particle_count, particle_types)
                       /\ pc' = "particles"
              ELSE /\ UNCHANGED particlevars
                   /\ pc' = "failed"
    /\ UNCHANGED <<cfgvars, interaction_matrix, grid, step_num, running, twin>>

\* main.py:60, simulation.py:190-243
ConstructSimulation ==
    /\ pc = "particles"
    /\ LET err == SimulationError(particle_types, sim_params.interaction_matrix)
       IN  /\ error' = err
           /\ IF err = "none"
              THEN /\ interaction_matrix' = AsArray(sim_params.interaction_matrix)
                   /\ grid' = EmptyGrid
                   /\ pc' = "step"
              ELSE /\ UNCHANGED <<interaction_matrix, grid>>
                   /\ pc' = "failed"
    /\ UNCHANGED <<cfgvars, particlevars, step_num, running, twin>>

\* A step that integrates particle by particle: the force of particle i is
\* computed after the particles before it have already moved.
RECURSIVE InPlace(_, _, _, _, _, _)
InPlace(g, pos, vel, typ, matrix, i) ==
    IF i >= particle_count THEN [grid |-> g, velocities |-> vel, positions |-> pos]
    ELSE LET force == SumForces(Visited(UpdateGrid(pos), pos, i), pos, typ, matrix, i)
             v == NewVelocity(vel[i], force)
         IN  InPlace(g, [pos EXCEPT ![i] = Wrap(Advance(pos[i], v))],
                     [vel EXCEPT ![i] = v], typ, matrix, i + 1)

StepResultInPlace(pos, vel, typ, matrix) ==
    InPlace(UpdateGrid(pos), pos, vel, typ, matrix, 0)

\* simulation.py:245-298: what step() leaves in the grid and the particle
\* store it is called on.
StepResult(pos, vel, typ, matrix) ==
    LET g == UpdateGrid(pos)
        total_force == TotalForce(g, pos, typ, matrix)
        v == [i \in Indices(particle_count) |-> NewVelocity(vel[i], total_force[i])]
    IN  [grid |-> g,
         velocities |-> v,
         positions |-> [i \in Indices(particle_count) |-> Wrap(Advance(pos[i], v[i]))]]

\* A step that keeps using the array the constructor built: a matrix the
\* user rebinds or edits does not reach it.
StepStaleMatrix ==
    /\ pc = "step"
    /\ LET out == StepResult(positions, velocities, types,
                             AsArray(sim_params.interaction_matrix))
       IN  /\ grid' = out.grid
           /\ velocities' = out.velocities
           /\ positions' = out.positions
    /\ step_num' = step_num + 1
    /\ pc' = "draw"
    /\ UNCHANGED <<cfgvars, types, interaction_matrix, running, error, twin>>

\* main.py:74-75, simulation.py:245-298
Step ==
    /\ pc = "step"
    /\ LET out == StepResult(positions, velocities, types, interaction_matrix)
       IN  /\ grid' = out.grid
           /\ velocities' = out.velocities
           /\ positions' = out.positions
    /\ step_num' = step_num + 1
    /\ pc' = "draw"
    /\ UNCHANGED <<cfgvars, types, interaction_matrix, running, error, twin>>

---------------------------------------------------------------------------
(* Visualizer.draw (visualization.py:355-473): the event loop.  Drawing    *)
(* itself changes nothing of the engine.                                   *)

\* visualization.py:108: 0.05
scroll_sensitivity == 1

\* np.random.rand() samples (of [0, 1), in lattice units) the model draws.
RandSamples == {0, One - 1}

\* One sample drawn and broadcast to every cell (np.random.rand() without
\* the shape).
RandomMatricesOneDraw(num_types) ==
    {[r \in 0 .. (num_types - 1) |-> [c \in 0 .. (num_types - 1) |-> FMul(u, 2 * One) - One]] :
        u \in RandSamples}

\* simulation.py:184-187: the matrices randomize_interaction_matrix can
\* produce for a matrix of shape[0] = num_types.
RandomMatrices(num_types) ==
    {[r \in 0 .. (num_types - 1) |-> [c \in 0 .. (num_types - 1) |-> FMul(u[r][c], 2 * One) - One]] :
        u \in [0 .. (num_types - 1) -> [0 .. (num_types - 1) -> RandSamples]]}

\* A reset that clears the first row only (interaction_matrix[0].fill(0.0)).
FillZeroFirstRow(m) ==
    [r \in DOMAIN m |-> [c \in DOMAIN m[r] |-> IF r = 0 THEN 0 ELSE m[r][c]]]

\* visualization.py:380
FillZero(m) == [r \in DOMAIN m |-> [c \in DOMAIN m[r] |-> 0]]

\* The scroll edit with np.clip left out.
ScrollCellUnclamped(m, r, c, y) ==
    [m EXCEPT ![r][c] = @ + y * scroll_sensitivity]

\* visualization.py:386-395: one MOUSEWHEEL event with event.y = y over cell (r, c).
ScrollCell(m, r, c, y) ==
    [m EXCEPT ![r][c] = Clip(@ + y * scroll_sensitivity, -One, One)]

\* Where the mouse is during one draw (visualization.py:362-363): over the
\* matrix cell (r, c), over one of the two buttons, or elsewhere.
MousePositions(m) ==
    {[over |-> "cell", r |-> r, c |-> c] : r \in DOMAIN m, c \in DOMAIN m}
    \cup {[over |-> o, r |-> 0, c |-> 0] : o \in {"reset", "randomize", "elsewhere"}}

\* QUIT, KEYDOWN K_ESCAPE, MOUSEBUTTONDOWN button 1, MOUSEWHEEL y = 1 / -1.
EventTypes == {"QUIT", "ESCAPE", "CLICK", "WHEEL_UP", "WHEEL_DOWN"}

RECURSIVE SeqsUpTo(_, _)
SeqsUpTo(S, n) ==
    IF n = 0 THEN {<<>>}
    ELSE LET shorter == SeqsUpTo(S, n - 1)
         IN  shorter \cup {Append(q, e) : q \in shorter, e \in S}

EventQueues == SeqsUpTo(EventTypes, MaxEvents)

\* The clicks on the randomize button that the loop handles before it returns.
RECURSIVE RandomizeClicks(_, _)
RandomizeClicks(evs, mouse) ==
    IF evs = <<>> \/ Head(evs) \in {"QUIT", "ESCAPE"} THEN 0
    ELSE (IF Head(evs) = "CLICK" /\ mouse.over = "randomize" THEN 1 ELSE 0)
         + RandomizeClicks(Tail(evs), mouse)

\* visualization.py:366-401: the events in order; rnds[k] is the matrix the
\* k-th call of randomize_interaction_matrix draws.
RECURSIVE HandleEvents(_, _, _, _, _)
HandleEvents(evs, m, mouse, rnds, used) ==
    IF evs = <<>> THEN [matrix |-> m, result |-> TRUE]
    ELSE LET e == Head(evs)
         IN  IF e \in {"QUIT", "ESCAPE"} THEN [matrix |-> m, result |-> FALSE]
             ELSE IF e = "CLICK" /\ mouse.over = "reset"
                  THEN HandleEvents(Tail(evs), FillZero(m), mouse, rnds, used)
             ELSE IF e = "CLICK" /\ mouse.over = "randomize"
                  THEN HandleEvents(Tail(evs), rnds[used + 1], mouse, rnds, used + 1)
             ELSE IF e \in {"WHEEL_UP", "WHEEL_DOWN"} /\ mouse.over = "cell"
                  THEN HandleEvents(Tail(evs),
                                    ScrollCell(m, mouse.r, mouse.c, IF e = "WHEEL_UP" THEN 1 ELSE -1),
                                    mouse, rnds, used)
             ELSE HandleEvents(Tail(evs), m, mouse, rnds, used)

\* RandomMatrices for the matrix sizes of the configurations, computed once.
RandomMatricesOf ==
    [n \in {Shape(c.params.interaction_matrix)[1] : c \in Configs} |-> RandomMatrices(n)]

\* What n calls of randomize_interaction_matrix in a row can draw for the
\* matrix m.
RandomDraws(n, m) ==
    IF n = 0 THEN {<<>>}
    ELSE LET rows == Cardinality(DOMAIN m)
         IN  [1 .. n -> IF rows \in DOMAIN RandomMatricesOf
                          THEN RandomMatricesOf[rows] ELSE RandomMatrices(rows)]

\* The frame with the exit test of main.py:93 off by one (step_num >
\* max_steps): the loop takes one step more than asked for.
DrawWithOneMore(mouse, evs) ==
    /\ pc = "draw"
    /\ \E rnds \in RandomDraws(RandomizeClicks(evs, mouse), interaction_matrix) :
          LET out == HandleEvents(evs, interaction_matrix, mouse, rnds, 0)
              go == out.result /\ ~(step_num > max_steps)
          IN  /\ interaction_matrix' = out.matrix
              /\ running' = go
              /\ pc' = IF go THEN "step" ELSE "done"
    /\ UNCHANGED <<cfgvars, particlevars, grid, step_num, error, twin>>

\* main.py:81-95 with visualization.py:355-473 for one mouse position and
\* one event queue.
DrawWith(mouse, evs) ==
    /\ pc = "draw"
    /\ \E rnds \in RandomDraws(RandomizeClicks(evs, mouse), interaction_matrix) :
          LET out == HandleEvents(evs, interaction_matrix, mouse, rnds, 0)
              go == out.result /\ ~(step_num >= max_steps)
          IN  /\ interaction_matrix' = out.matrix
              /\ running' = go
              /\ pc' = IF go THEN "step" ELSE "done"
    /\ UNCHANGED <<cfgvars, particlevars, grid, step_num, error, twin>>

Draw == \E mouse \in MousePositions(interaction_matrix), evs \in EventQueues : DrawWith(mouse, evs)

\* A frame in which the user does nothing.
DrawIdle == DrawWith([over |-> "elsewhere", r |-> 0, c |-> 0], <<>>)

Next == ConstructParticles \/ ConstructSimulation \/ Step \/ Draw

Spec == Init /\ [][Next]_vars

\* main() moving on from where it is, to any other place.
Proceed ==
    /\ pc \in {"start", "particles", "step", "draw"}
    /\ pc' \in {"particles", "step", "draw", "done", "failed"}

\* main() is one thread and every call it makes returns: for as long as it
\* has not ended it moves on.  Every step of Next moves pc, and one is
\* possible wherever main() has not ended.
SpecLive == Spec /\ WF_pc(Proceed)

\* The engine alone: the same program, the user idle.
InitEngine == \E c \in EngineConfigs : Start(c, <<0, 0>>)

NextEngine == ConstructParticles \/ ConstructSimulation \/ Step \/ DrawIdle

SpecEngine == InitEngine /\ [][NextEngine]_vars

---------------------------------------------------------------------------
(* Two runs of main() on one configuration, each with an idle user and    *)
(* its own share of the operating system's entropy.                       *)

\* What the operating system may hand to a generator that asks for it.
Entropies == {0, SeedOf(<<7, 7, 3, 3, 4, 4>>)}

TwinSeeds ==
    {SeedOf(<<0, 0, 1, 0, 0, 4>>), SeedOf(<<0, 0, 1, 1, 0, 0>>),
     SeedOf(<<7, 7, 0, 0, 0, 4>>), SeedOf(<<2, 0, 3, 1, 4, 4>>)}

TwinConfigs ==
    {[params |-> [p EXCEPT !.seed = s], width |-> w[1], height |-> w[2], max_steps |-> MaxSteps] :
        p \in ParamVariants, s \in TwinSeeds, w \in {<<60, 60>>, <<70, 50>>}}

mainvars == <<pc, positions, velocities, types, interaction_matrix, grid,
              step_num, running, error>>

\* main.py:59 in the second run.
TwinConstructParticles ==
    /\ twin.pc = "start"
    /\ ParticleSystemError(particle_count, particle_types) = "none"
    /\ LET rng == DefaultRng(sim_params.seed, entropy[2])
       IN  twin' = [twin EXCEPT
                      !.positions = InitialPositions(rng, particle_count, sim_width, sim_height),
                      !.velocities = InitialVelocities(particle_count),
                      !.types = InitialTypes(rng, particle_count, particle_types),
                      !.pc = "particles"]
    /\ UNCHANGED <<cfgvars, mainvars>>

\* main.py:60 in the second run.
TwinConstructSimulation ==
    /\ twin.pc = "particles"
    /\ SimulationError(particle_types, sim_params.interaction_matrix) = "none"
    /\ twin' = [twin EXCEPT
                  !.interaction_matrix = AsArray(sim_params.interaction_matrix),
                  !.pc = "step"]
    /\ UNCHANGED <<cfgvars, mainvars>>

\* main.py:73-95 in the second run: one turn of the loop, draw() finding no
\* event.
TwinStep ==
    /\ twin.pc = "step"
    /\ LET out == StepResult(twin.positions, twin.velocities, twin.types,
                             twin.interaction_matrix)
       IN  twin' = [twin EXCEPT
                      !.positions = out.positions,
                      !.velocities = out.velocities,
                      !.step_num = twin.step_num + 1,
                      !.pc = IF twin.step_num + 1 >= max_steps THEN "done" ELSE "step"]
    /\ UNCHANGED <<cfgvars, mainvars>>

InitTwin == \E c \in TwinConfigs, e \in Entropies \X Entropies : Start(c, e)

NextTwin ==
    \/ ConstructParticles \/ ConstructSimulation \/ Step \/ DrawIdle
    \/ TwinConstructParticles \/ TwinConstructSimulation \/ TwinStep

SpecTwin == InitTwin /\ [][NextTwin]_vars

---------------------------------------------------------------------------
(* Properties *)

\* The particle store exists (ParticleSystem.__init__ returned).
HasParticles == pc \in {"particles", "step", "draw", "done"}

\* A Simulation object exists (Simulation.__init__ returned).
HasSimulation == pc \in {"step", "draw", "done"}

InWorld(p) ==
    /\ 0 <= p[1] /\ p[1] < WINDOW_WIDTH
    /\ 0 <= p[2] /\ p[2] < WINDOW_HEIGHT

\* The distance along one axis of the torus, and the squared toroidal
\* distance of two points of the world, by definition.
TorGap(a, b, world) ==
    LET d == Abs(b - a) IN IF d <= world - d THEN d ELSE world - d

TorDistSq(p, q) ==
    TorGap(p[1], q[1], WINDOW_WIDTH) * TorGap(p[1], q[1], WINDOW_WIDTH)
    + TorGap(p[2], q[2], WINDOW_HEIGHT) * TorGap(p[2], q[2], WINDOW_HEIGHT)

GridNeighbours(i) ==
    {j \in DOMAIN positions :
        /\ j # i
        /\ \E k \in DOMAIN Visited(UpdateGrid(positions), positions, i) :
              Visited(UpdateGrid(positions), positions, i)[k] = j
        /\ NormSq(DeltaPos(positions[i], positions[j])) < radius_max_sq}

\* All particles within radius_max of i under the toroidal distance.
BruteNeighbours(i) ==
    {j \in DOMAIN positions :
        j # i /\ TorDistSq(positions[i], positions[j]) < radius_max_sq}

\* C2: for every particle i the grid scan finds exactly the particles
\* within radius_max of i under the toroidal distance, for every world.
C2_NeighbourEquivalence ==
    HasParticles => \A i \in DOMAIN positions : GridNeighbours(i) = BruteNeighbours(i)

ShapeMismatch == Shape(sim_params.interaction_matrix) # <<particle_types, particle_types>>

\* C3: with a matrix that is not particle_types x particle_types no
\* Simulation object ever exists, and construction ends in a ValueError.
C3_ShapeMismatchFails ==
    ShapeMismatch =>
        /\ ~HasSimulation
        /\ step_num = 0
        /\ (pc = "failed" => error = "ValueError")

\* C3 witness: a 2x3 matrix with three types; the particle store was built
\* and Simulation.__init__ raised.
C3_Refused2x3 ==
    /\ pc = "failed" /\ error = "ValueError"
    /\ ParticleSystemError(particle_count, particle_types) = "none"
    /\ particle_types = 3
    /\ Shape(sim_params.interaction_matrix) = <<2, 3>>

\* C4: with interaction_radius_min >= interaction_radius_max construction
\* fails: no Simulation object exists and no step is taken.
C4_BadRadiiRefused == radius_min >= radius_max => ~HasSimulation

\* C5: with particle_count <= 0 or particle_types <= 0 the particle store
\* is never built.
C5_EmptyStoreRefused ==
    (particle_count <= 0 \/ particle_types <= 0) => ~HasParticles

\* The velocity of particle i after the force and friction updates of the
\* step about to be taken (simulation.py:266-269), before the cap.
PostFriction(i) ==
    ApplyFriction(ApplyForce(velocities[i],
        TotalForce(UpdateGrid(positions), positions, types, interaction_matrix)[i]))

\* What truncation to the lattice can take from the speed of a velocity
\* rescaled to max_velocity (one unit per division and product, per axis).
CapSlack == 2 * (TDiv(max_velocity, One) + 1) + 1

AtMaxSpeed(v) == Speed(v) <= max_velocity /\ Speed(v) >= max_velocity - CapSlack

\* v points the way w does, up to truncation to the lattice.
SameDirection(w, v) ==
    /\ w[1] * v[1] >= 0 /\ w[2] * v[2] >= 0
    /\ Abs(w[1] * v[2] - w[2] * v[1]) <= (Abs(w[1]) + Abs(w[2])) * (TDiv(max_velocity, One) + 1)

\* C6 as stated: after a step no speed exceeds max_velocity; a particle
\* whose post-friction speed is above max_velocity ends at max_velocity in
\* the same direction; a particle at or below it is not rescaled (it keeps
\* its velocity, or stiction zeroes it).
C6_SpeedCapAsStated ==
    [][Step => \A i \in DOMAIN velocities :
          LET w == PostFriction(i)
              v == velocities'[i]
          IN  /\ Speed(v) <= max_velocity
              /\ OverSpeed(w) => AtMaxSpeed(v) /\ SameDirection(w, v)
              /\ ~OverSpeed(w) => v \in {w, Zero2}]_vars

\* C6 amended: as stated, except that a capped particle ends with zero
\* velocity when velocity_damping_threshold > max_velocity (the stiction
\* check compares a capped particle as max_velocity).
C6_SpeedCap ==
    [][Step => \A i \in DOMAIN velocities :
          LET w == PostFriction(i)
              v == velocities'[i]
          IN  /\ Speed(v) <= max_velocity
              /\ OverSpeed(w) =>
                    IF velocity_damping_threshold > max_velocity
                    THEN v = Zero2
                    ELSE AtMaxSpeed(v) /\ SameDirection(w, v)
              /\ ~OverSpeed(w) => v \in {w, Zero2}]_vars

\* C6 witness: a step has just ended with one particle at max_velocity and
\* another one moving well below it.
C6_OneCappedOneNot ==
    /\ pc = "draw"
    /\ \E i, j \in DOMAIN velocities :
          /\ Speed(velocities[i]) = max_velocity
          /\ 0 < Speed(velocities[j]) /\ Speed(velocities[j]) < max_velocity - CapSlack

PairOf(i, j) == PairForce(positions[i], positions[j], types[i], types[j], interaction_matrix)

\* The divisors of simulation.py:142-165 for a pair that passes the range
\* test of line 139.
DivisorsNonZero(pos_i, pos_j) ==
    LET distance_sq == NormSq(DeltaPos(pos_i, pos_j))
        distance == Sqrt(distance_sq)
        ideal_dist == TDiv(radius_min + radius_max, 2)
    IN  InRange(distance_sq) =>
            /\ distance + Epsilon # 0
            /\ distance_sq < radius_min_sq => radius_min # 0
            /\ distance_sq >= radius_min_sq /\ distance < ideal_dist => ideal_dist - radius_min # 0
            /\ distance_sq >= radius_min_sq /\ distance >= ideal_dist => radius_max - ideal_dist # 0

\* C7: the contribution of j to i is zero whenever their toroidal distance
\* is 0 or at least radius_max (so it is nonzero only for 0 < r <
\* radius_max), and no divisor of the force computation is zero.
C7_ZeroOutsideRange ==
    HasSimulation => \A i, j \in DOMAIN positions :
        /\ (TorDistSq(positions[i], positions[j]) = 0
            \/ TorDistSq(positions[i], positions[j]) >= radius_max_sq) => PairOf(i, j) = Zero2
        /\ DivisorsNonZero(positions[i], positions[j])

\* C7 witness: a step has been taken from a state that holds a coincident
\* pair and a pair at radius_max or beyond whose matrix cell is not zero.
C7_CoincidentAndFar ==
    /\ pc = "draw"
    /\ \E i, j \in DOMAIN positions : i # j /\ positions[i] = positions[j]
    /\ \E i, j \in DOMAIN positions :
          /\ TorDistSq(positions[i], positions[j]) >= radius_max_sq
          /\ interaction_matrix[types[i]][types[j]] # 0

TestMatrices ==
    [DOMAIN interaction_matrix -> [DOMAIN interaction_matrix -> {-One, 0, One}]]

\* What truncation to the lattice can take from or add to a component of a
\* repulsion contribution (one unit per division and product, the first
\* one scaled by repulsion_strength).
ShortSlack == 2 * (TDiv(repulsion_strength, One) + 1) + 1

\* The stated contribution of j to i at short range: magnitude
\* repulsion_strength * (1 - r/radius_min), pointing from j to i, the same
\* for all types and matrices, and the exact negative of that of i to j.
RepulsionAsStated(i, j) ==
    LET f == PairOf(i, j)
        d == DeltaPos(positions[i], positions[j])
        r == Sqrt(TorDistSq(positions[i], positions[j]))
        magnitude == FMul(repulsion_strength, One - FDiv(r, radius_min))
    IN  /\ Speed(f) >= magnitude - 2 * ShortSlack
        /\ Speed(f) * r <= (magnitude + 2 * ShortSlack) * (r + 1)
        /\ (d[1] = 0 \/ d[2] = 0) => Speed(f) = magnitude
        /\ f[1] * d[1] <= 0 /\ f[2] * d[2] <= 0
        /\ f # Zero2 => f[1] * d[1] + f[2] * d[2] < 0
        /\ Abs(f[1] * d[2] - f[2] * d[1]) <= (Abs(d[1]) + Abs(d[2])) * ShortSlack
        /\ \A a, b \in DOMAIN interaction_matrix : \A m \in TestMatrices :
              PairForce(positions[i], positions[j], a, b, m) = f
        /\ PairOf(j, i) = VNeg(f)

ShortRange(i, j) ==
    /\ 0 < TorDistSq(positions[i], positions[j])
    /\ TorDistSq(positions[i], positions[j]) < radius_min_sq

\* C10: every ordered pair with 0 < r < radius_min contributes the stated
\* repulsion: magnitude repulsion_strength * (1 - r/radius_min), away from
\* j, whatever the types and the matrix, and antisymmetric in (i, j).
C10_ShortRangeRepulsion ==
    HasSimulation => \A i, j \in DOMAIN positions :
        ShortRange(i, j) => RepulsionAsStated(i, j)

\* The same for the pairs that are also closer than radius_max.
C10_ShortRangeWithinCutoff ==
    HasSimulation => \A i, j \in DOMAIN positions :
        (ShortRange(i, j) /\ TorDistSq(positions[i], positions[j]) < radius_max_sq)
            => RepulsionAsStated(i, j)

\* A step was taken with a pair of unlike types, a nonzero matrix cell
\* between them, at short range and pushing each other apart.
C10_UnlikePairRepelled ==
    /\ pc = "draw"
    /\ \E i, j \in DOMAIN positions :
          /\ ShortRange(i, j) /\ types[i] # types[j]
          /\ interaction_matrix[types[i]][types[j]] # 0
          /\ PairOf(i, j) # Zero2

LongRange(i, j) ==
    /\ radius_min_sq <= TorDistSq(positions[i], positions[j])
    /\ TorDistSq(positions[i], positions[j]) < radius_max_sq

Min(a, b) == IF a <= b THEN a ELSE b

\* The triangular profile times the cell, as the claim gives it: 0 at
\* radius_min and at radius_max, the cell itself half way between them.
Triangle(strength, r) ==
    TDiv(2 * strength * Min(r - radius_min, radius_max - r), radius_max - radius_min)

\* What truncation to the lattice can add to or take from a component of a
\* long-range contribution: one unit of the direction scaled by the
\* magnitude, two units in the profile, one in their product.
LongSlack(strength) == TDiv(Abs(strength), One) + 3

\* C11: every ordered pair with radius_min <= r < radius_max contributes
\* matrix[type_i][type_j] times the triangular profile along d/r: toward j
\* for a positive cell, away from j for a negative one.
C11_LongRangeProfile ==
    HasSimulation => \A i, j \in DOMAIN positions :
        LongRange(i, j) =>
            LET f == PairOf(i, j)
                d == DeltaPos(positions[i], positions[j])
                r == Sqrt(TorDistSq(positions[i], positions[j]))
                strength == interaction_matrix[types[i]][types[j]]
                magnitude == Triangle(strength, r)
            IN  /\ \A k \in 1 .. 2 :
                      Abs(f[k] * r - magnitude * d[k]) <= LongSlack(strength) * r
                /\ strength > 0 => f[1] * d[1] >= 0 /\ f[2] * d[2] >= 0
                /\ strength < 0 => f[1] * d[1] <= 0 /\ f[2] * d[2] <= 0
                /\ strength = 0 => f = Zero2

\* C11 witness: a step was taken, and of a pair past the ideal distance one
\* particle is pulled toward the other while the other is pushed away.
C11_PulledAndPushed ==
    /\ pc = "draw"
    /\ \E i, j \in DOMAIN positions :
          LET d == DeltaPos(positions[i], positions[j])
          IN  /\ LongRange(i, j)
              /\ 2 * Sqrt(TorDistSq(positions[i], positions[j])) > radius_min + radius_max
              /\ PairOf(i, j)[1] * d[1] + PairOf(i, j)[2] * d[2] > 0
              /\ PairOf(j, i)[1] * d[1] + PairOf(j, i)[2] * d[2] > 0

\* The matrices that agree with the live one on row a.
SameRow(a) == {m \in TestMatrices : m[a] = interaction_matrix[a]}

C13_ForcesFromPreStepState ==
    [][Step =>
          LET g == UpdateGrid(positions)
              total_force == TotalForce(g, positions, types, interaction_matrix)
          IN  /\ grid' = g
              /\ \A i \in DOMAIN positions :
                    /\ velocities'[i] = NewVelocity(velocities[i], total_force[i])
                    /\ positions'[i] = Wrap(Advance(positions[i], velocities'[i]))]_vars

\* C13 witness: a second step has ended in which every particle moved under
\* a force, and the grid it used is no longer the grid of the positions.
C13_AllMovedUnderForce ==
    /\ pc = "draw" /\ step_num >= 2
    /\ grid # UpdateGrid(positions)
    /\ \A i \in DOMAIN velocities : velocities[i] # Zero2

\* One frame whose only event is a left click on the randomize button.
RandomizeOnly == DrawWith([over |-> "randomize", r |-> 0, c |-> 0], <<"CLICK">>)

\* The matrices a randomize click can leave behind in the state in hand.
Randomized == UNION {{d[1]} : d \in RandomDraws(1, interaction_matrix)}

\* All matrices over the rows and columns D that take in each cell a value
\* some matrix of the set S has in that cell.
AnyCombination(S, D) ==
    {m \in [D -> [D -> UNION {{n[r][c] : r, c \in D} : n \in S}]] :
        \A r, c \in D : \E n \in S : n[r][c] = m[r][c]}

\* C14: randomize_interaction_matrix() leaves a matrix of the same T x T
\* shape with every cell in [-1, 1] and changes no particle state; the
\* matrices it can leave are all combinations of the values each cell can
\* get, whatever the matrix replaced.
C14_RandomizeMatrix ==
    /\ [](HasSimulation =>
            Randomized = AnyCombination(Randomized, DOMAIN interaction_matrix))
    /\ [][RandomizeOnly =>
          /\ DOMAIN interaction_matrix' = DOMAIN interaction_matrix
          /\ \A r \in DOMAIN interaction_matrix' :
                /\ DOMAIN interaction_matrix'[r] = DOMAIN interaction_matrix[r]
                /\ \A c \in DOMAIN interaction_matrix'[r] :
                      -One <= interaction_matrix'[r][c] /\ interaction_matrix'[r][c] <= One
          /\ UNCHANGED <<positions, velocities, types>>
          /\ interaction_matrix' \in Randomized]_vars

\* C14 witness: the 2 x 2 matrix in use came from a randomize click, with
\* unlike cells, and the particles have been stepped.
C14_RandomizedUnlikeCells ==
    /\ pc = "step" /\ step_num >= 1
    /\ Cardinality(DOMAIN interaction_matrix) = 2
    /\ interaction_matrix \in Randomized
    /\ interaction_matrix # AsArray(sim_params.interaction_matrix)
    /\ \E r, c \in DOMAIN interaction_matrix : interaction_matrix[r][c] # interaction_matrix[0][0]

\* One frame whose only event is a left click on the reset button.
ResetOnly == DrawWith([over |-> "reset", r |-> 0, c |-> 0], <<"CLICK">>)

AllZero(m) == \A r \in DOMAIN m : \A c \in DOMAIN m[r] : m[r][c] = 0

\* C15: a click on the reset button leaves a matrix of the same shape with
\* every cell 0 and changes no particle state, and with the matrix it
\* leaves no pair in the long-range regime contributes a force.
C15_ResetMatrix ==
    [][ResetOnly =>
          /\ AllZero(interaction_matrix')
          /\ DOMAIN interaction_matrix' = DOMAIN interaction_matrix
          /\ \A r \in DOMAIN interaction_matrix :
                DOMAIN interaction_matrix'[r] = DOMAIN interaction_matrix[r]
          /\ UNCHANGED <<positions, velocities, types>>
          /\ \A i, j \in DOMAIN positions :
                LongRange(i, j) =>
                    PairForce(positions[i], positions[j], types[i], types[j],
                              interaction_matrix') = Zero2]_vars

\* C15 witness: the matrix was reset, a step has been taken since, and a
\* pair of particles is in the long-range regime.
C15_SteppedAfterReset ==
    /\ pc = "draw" /\ step_num >= 2
    /\ AllZero(interaction_matrix)
    /\ ~AllZero(AsArray(sim_params.interaction_matrix))
    /\ \E i, j \in DOMAIN positions : LongRange(i, j)

\* One frame whose only event is one notch of the wheel (y = 1 up, -1
\* down) with the mouse over cell (r, c).
ScrollOnly(r, c, y) ==
    DrawWith([over |-> "cell", r |-> r, c |-> c], <<IF y = 1 THEN "WHEEL_UP" ELSE "WHEEL_DOWN">>)

CellsInRange(m) ==
    \A r \in DOMAIN m : \A c \in DOMAIN m[r] : -One <= m[r][c] /\ m[r][c] <= One

Max(a, b) == IF a >= b THEN a ELSE b

\* C16: a scroll edit over cell (r, c) sets it to old + 0.05 * scroll
\* brought back into [-1, 1] and leaves the other cells alone; and no frame
\* of scroll edits, resets and randomizations takes a matrix with all cells
\* in [-1, 1] to one with a cell outside.
C16_EditsClamped ==
    [][/\ \A r, c \in DOMAIN interaction_matrix : \A y \in {-1, 1} :
             ScrollOnly(r, c, y) =>
                 \A r2, c2 \in DOMAIN interaction_matrix :
                     interaction_matrix'[r2][c2] =
                         IF r2 = r /\ c2 = c
                         THEN Max(-One, Min(One, interaction_matrix[r][c] + y * scroll_sensitivity))
                         ELSE interaction_matrix[r2][c2]
       /\ (HasSimulation /\ CellsInRange(interaction_matrix)) => CellsInRange(interaction_matrix')]_vars

\* C16 witness: a cell of the 2 x 2 matrix that the configuration does not
\* set to 1 was scrolled up to 1 from a randomized value.
C16_ScrolledUpToOne ==
    /\ HasSimulation /\ Cardinality(DOMAIN interaction_matrix) = 2
    /\ interaction_matrix \notin Randomized
    /\ \E r, c \in DOMAIN interaction_matrix :
          /\ interaction_matrix[r][c] = One
          /\ sim_params.interaction_matrix[r + 1][c + 1] # One

\* How often particle i is entered in a cell's list.
Count(entries, i) == Cardinality({k \in DOMAIN entries : entries[k] = i})

\* The cells the claim gives particle at p, as <<column, row>>: the primary
\* cell, and a ghost in the opposite-edge column, in the opposite-edge row
\* and in the opposite corner when p is within a cell size of the edge(s).
StatedCells(p) ==
    LET cx == p[1] \div grid_cell_size
        cy == p[2] \div grid_cell_size
        left == p[1] < grid_cell_size
        right == WINDOW_WIDTH - p[1] < grid_cell_size
        top == p[2] < grid_cell_size
        bottom == WINDOW_HEIGHT - p[2] < grid_cell_size
        last_column == grid_width - 1
        last_row == grid_height - 1
    IN  <<<<cx, cy>>>>
        \o Opt(right, <<0, cy>>) \o Opt(left, <<last_column, cy>>)
        \o Opt(bottom, <<cx, 0>>) \o Opt(top, <<cx, last_row>>)
        \o Opt(right /\ bottom, <<0, 0>>) \o Opt(left /\ bottom, <<last_column, 0>>)
        \o Opt(right /\ top, <<0, last_row>>) \o Opt(left /\ top, <<last_column, last_row>>)

\* The grid g holds, for the positions pos, the stated entries and no other.
GridAsStated(g, pos) ==
    \A i \in DOMAIN pos :
        /\ Len(StatedCells(pos[i])) <= 4
        /\ \A cx \in 0 .. (grid_width - 1), cy \in 0 .. (grid_height - 1) :
              Count(g[cx + cy * grid_width], i)
                  = Count(StatedCells(pos[i]), <<cx, cy>>)

\* C17: the grid a step builds holds nothing of the grid before it, each
\* particle once in its primary cell, and its ghosts (at most three: the
\* opposite-edge column, the opposite-edge row, the opposite corner)
\* exactly when it is within a cell size of the edge(s).
C17_GridContents ==
    [][Step => GridAsStated(grid', positions)]_vars

\* The same in the worlds whose sides are multiples of the cell size.
C17_GridContentsWholeCells ==
    [][(Step /\ WINDOW_WIDTH % grid_cell_size = 0 /\ WINDOW_HEIGHT % grid_cell_size = 0)
          => GridAsStated(grid', positions)]_vars

C19_ShortestDisplacement ==
    HasSimulation => \A i, j \in DOMAIN positions :
        LET d == DeltaPos(positions[i], positions[j])
        IN  /\ 2 * Abs(d[1]) <= WINDOW_WIDTH
            /\ 2 * Abs(d[2]) <= WINDOW_HEIGHT
            /\ (d[1] - (positions[j][1] - positions[i][1])) % WINDOW_WIDTH = 0
            /\ (d[2] - (positions[j][2] - positions[i][2])) % WINDOW_HEIGHT = 0
            /\ NormSq(d) = TorDistSq(positions[i], positions[j])

\* C19 witness: after a step two particles are more than half the world
\* apart along both axes, so that each separation is taken across the edges.
C19_AcrossBothEdges ==
    /\ pc = "draw"
    /\ \E i, j \in DOMAIN positions :
          /\ 2 * (positions[j][1] - positions[i][1]) > WINDOW_WIDTH
          /\ 2 * (positions[j][2] - positions[i][2]) > WINDOW_HEIGHT
          /\ DeltaPos(positions[i], positions[j])[1] < 0
          /\ DeltaPos(positions[j], positions[i])[2] > 0

TypesInRange ==
    HasParticles => \A i \in DOMAIN types : types[i] \in 0 .. (particle_types - 1)

LookupsInBounds ==
    HasSimulation => \A i, j \in DOMAIN types :
        /\ types[i] \in DOMAIN interaction_matrix
        /\ types[j] \in DOMAIN interaction_matrix[types[i]]

\* C20: a step changes positions, velocities and the grid only: the number
\* of particles, the type of every index, the matrix and the configuration
\* stay; and in every reachable state every type is one of 0 .. T-1 and
\* every lookup matrix[type_i][type_j] is inside the matrix.
C20_StepFrame ==
    /\ [](TypesInRange /\ LookupsInBounds)
    /\ [][Step =>
             /\ DOMAIN positions' = DOMAIN positions
             /\ DOMAIN velocities' = DOMAIN velocities
             /\ DOMAIN positions' = 0 .. (particle_count - 1)
             /\ UNCHANGED <<types, interaction_matrix, sim_params, sim_width,
                            sim_height, max_steps>>]_vars

\* C20 witness: two steps and a matrix edit later, a particle of the
\* highest type is still in the store.
C20_TopTypeAfterSteps ==
    /\ pc = "draw" /\ step_num >= 2
    /\ interaction_matrix # AsArray(sim_params.interaction_matrix)
    /\ \E i \in DOMAIN types : types[i] = particle_types - 1 /\ types[i] >= 1

\* What the step about to run makes of the velocities when it reads the
\* matrix m.
VelocitiesUnder(m) == StepResult(positions, velocities, types, m).velocities

\* C21: once the simulation exists its matrix changes only in a draw, which
\* follows a completed step (the step counter is already raised) and comes
\* before the next one, and a draw changes no particle state; a step leaves
\* the matrix alone and computes its forces from the matrix as the draw
\* before it left it, rebound or edited in place.
C21_MutationsBetweenSteps ==
    [][/\ (HasSimulation /\ interaction_matrix' # interaction_matrix) =>
              /\ pc = "draw" /\ step_num >= 1
              /\ UNCHANGED <<positions, velocities, types, grid, step_num>>
       /\ pc = "draw" => pc' \in {"step", "done"} /\ step_num' = step_num
       /\ pc = "step" =>
              /\ pc' = "draw" /\ step_num' = step_num + 1
              /\ interaction_matrix' = interaction_matrix
              /\ velocities' = VelocitiesUnder(interaction_matrix)]_vars

\* C21 witness: a step is about to run on a matrix a draw has changed, and
\* the change makes a difference to the velocities the step computes.
C21_EditReachesNextStep ==
    /\ pc = "step" /\ step_num >= 1
    /\ interaction_matrix # AsArray(sim_params.interaction_matrix)
    /\ VelocitiesUnder(interaction_matrix)
          # VelocitiesUnder(AsArray(sim_params.interaction_matrix))

\* The list indices of the primary cell of p and of the cells at the
\* opposite edge, same row or column, for the ghosts the program inserts.
OppositeEdgeIndices(p) ==
    LET last_column == grid_width - 1
        last_row == grid_height - 1
    IN  <<CellX(p) + CellY(p) * grid_width>>
        \o Opt(near_right(p), 0 + CellY(p) * grid_width)
        \o Opt(near_left(p), last_column + CellY(p) * grid_width)
        \o Opt(near_bottom(p), CellX(p) + 0 * grid_width)
        \o Opt(near_top(p), CellX(p) + last_row * grid_width)
        \o Opt(near_right(p) /\ near_bottom(p), 0 + 0 * grid_width)
        \o Opt(near_left(p) /\ near_bottom(p), last_column + 0 * grid_width)
        \o Opt(near_right(p) /\ near_top(p), 0 + last_row * grid_width)
        \o Opt(near_left(p) /\ near_top(p), last_column + last_row * grid_width)

IndicesAsStated(p) ==
    /\ \A k \in DOMAIN Insertions(p) : Insertions(p)[k] \in Cells
    /\ Insertions(p) = OppositeEdgeIndices(p)

\* C22: whenever a step is about to build the grid, every list index it
\* uses for a particle inside the world, primary cell and ghosts, is one of
\* 0 .. grid_width * grid_height - 1, and every ghost goes to the cell at
\* the opposite edge in the particle's own row or column (the opposite
\* corner for a corner ghost), whatever the world and the cell size.
C22_CellIndicesInRange ==
    pc = "step" =>
        \A i \in DOMAIN positions : InWorld(positions[i]) => IndicesAsStated(positions[i])

\* The same in the worlds whose sides are multiples of the cell size.
C22_CellIndicesWholeCells ==
    (pc = "step" /\ WINDOW_WIDTH % grid_cell_size = 0 /\ WINDOW_HEIGHT % grid_cell_size = 0) =>
        \A i \in DOMAIN positions : InWorld(positions[i]) => IndicesAsStated(positions[i])

\* How often the force loop of particle i, run on the grid of the positions
\* in hand, meets particle j.
Visits(i, j) == Count(Visited(UpdateGrid(positions), positions, i), j)

\* C23: whenever a step is about to run, every particle j within range of
\* another particle i is met at most once by the force loop of i, so that
\* it adds its force to the net force of i at most once, whatever the size
\* of the grid.
C23_NoDoubleCounting ==
    pc = "step" =>
        \A i, j \in DOMAIN positions :
            (i # j /\ InRange(NormSq(DeltaPos(positions[i], positions[j]))))
                => Visits(i, j) <= 1

FirstStop(evs) ==
    IF \E k \in DOMAIN evs : evs[k] \in {"QUIT", "ESCAPE"}
    THEN CHOOSE k \in DOMAIN evs :
            /\ evs[k] \in {"QUIT", "ESCAPE"}
            /\ \A h \in 1 .. (k - 1) : evs[h] \notin {"QUIT", "ESCAPE"}
    ELSE 0

\* Whatever the user does in the frame in hand, draw() returns False
\* exactly when the queue holds a QUIT or ESC, and then leaves the matrix as
\* the events before the first of them made it.
StopsAtFirstQuit ==
    pc = "draw" =>
        \A mouse \in MousePositions(interaction_matrix), evs \in EventQueues :
            \A rnds \in RandomDraws(RandomizeClicks(evs, mouse), interaction_matrix) :
                LET out == HandleEvents(evs, interaction_matrix, mouse, rnds, 0)
                    k == FirstStop(evs)
                    before == HandleEvents(SubSeq(evs, 1, k - 1), interaction_matrix,
                                           mouse, rnds, 0)
                IN  /\ out.result = (k = 0)
                    /\ k # 0 => out.matrix = before.matrix

\* C25: the loop of main() comes to its end; each iteration is one step,
\* which raises the step counter by one, followed by one draw; after a draw
\* the loop goes on exactly when the draw returned True and the counter is
\* below max_steps; a draw returns False at the first QUIT or ESC without
\* handling the events behind it; and at the end the steps taken are at
\* least 1 and at most max(1, max_steps).
C25_LoopTerminates ==
    /\ <>(pc \in {"done", "failed"})
    /\ [](StopsAtFirstQuit)
    /\ [](pc = "done" =>
            ~running /\ 1 <= step_num /\ step_num <= Max(1, max_steps))
    /\ [][/\ pc = "step" => pc' = "draw" /\ step_num' = step_num + 1
          /\ pc = "draw" =>
                /\ step_num' = step_num /\ pc' \in {"step", "done"}
                /\ pc' = "step" => running' /\ step_num < max_steps
                /\ step_num >= max_steps => pc' = "done"
          /\ pc = "done" => UNCHANGED vars]_vars

\* C25 witness: the loop has ended after its first step although more
\* were asked for, in a frame in which the matrix was edited before the
\* QUIT or ESC was met.
C25_QuitInFirstFrame ==
    /\ pc = "done" /\ step_num = 1 /\ max_steps >= 2
    /\ interaction_matrix # AsArray(sim_params.interaction_matrix)

=============================================================================
